---- MODULE Spec2Model ----
(***************************************************************************)
(* pyscaffoldext-clickstart: the steps the extension registers into the    *)
(* PyScaffold action pipeline (extension.py) and the tree/config patches   *)
(* they perform.                                                           *)
(*                                                                         *)
(* Representation.                                                         *)
(*  - A project tree is a nested dict.  A node is either a directory       *)
(*    [kind |-> "dir", kids |-> [name -> node]] or a leaf                  *)
(*    [kind |-> "leaf", tup, content, op]; tup = FALSE is a bare content   *)
(*    (no (content, op) tuple), which carries no file operation.           *)
(*  - A content is [kind, val]: "none" (None), "str" (literal text),       *)
(*    "fn" (deferred producer, val = the content it yields), "tmpl"        *)
(*    (string.Template, val = its text, a string), "int" (a non-text       *)
(*    literal).                                                            *)
(*  - setup.cfg / pyproject.toml text is a sequence of lines               *)
(*    [t, k, v]: "sec" ([k]), "opt" (k = v), "key" (k, no delimiter),      *)
(*    "cont" (indented continuation v), "com" (# k), "blank".              *)
(*  - .gitignore, setup.py and template text is a TLA+ string.             *)
(*  - the text of tests/README.md is the sequence of its code points.      *)
(***************************************************************************)
EXTENDS Integers, Sequences, FiniteSets, TLC

VARIABLES
    actions,     \* the ordered action list of the run (names of the steps)
    pc,          \* 0 before activation, else index of the next action to run
    struct,      \* the project tree threaded through the actions
    host,        \* the tree as the host's define_structure left it
    opts,        \* the options threaded through the actions
    err,         \* "" or the exception that aborted the run
    ran,         \* names of the actions that have run, in order
    definition,  \* unit harness: the leaf handed to modify_setupcfg
    resolved     \* unit harness: what modify_setupcfg returned / raised

vars == <<actions, pc, struct, host, opts, err, ran, definition, resolved>>

(***************************************************************************)
(* Generic helpers                                                         *)
(***************************************************************************)
SeqInsert(s, i, x) == SubSeq(s, 1, i - 1) \o <<x>> \o SubSeq(s, i, Len(s))

Ok(v) == [err |-> "", val |-> v]
Raise(e) == [err |-> e, val |-> <<>>]

(***************************************************************************)
(* Python str helpers                                                      *)
(***************************************************************************)
\* the characters str.isspace() holds for: space, \t, \n, \r, \f, then
\* U+000B, U+001C..U+001F, U+0085, U+00A0 and U+1680 written as themselves.
\* The Unicode spaces U+2000..U+200A, U+2028, U+2029, U+202F, U+205F and
\* U+3000 cannot be written in a string of this module; no text here holds one.
Whitespace ==
    {" ", "\t", "\n", "\r", "\f",
     "", "", "", "", "", "", " ", " "}

\* sub in s
Contains(sub, s) ==
    \E i \in 1..(Len(s) - Len(sub) + 1) : SubSeq(s, i, i + Len(sub) - 1) = sub

RECURSIVE lstrip(_)
lstrip(s) ==
    IF Len(s) > 0 /\ SubSeq(s, 1, 1) \in Whitespace THEN lstrip(SubSeq(s, 2, Len(s)))
    ELSE s

RECURSIVE rstrip(_)
rstrip(s) ==
    IF Len(s) > 0 /\ SubSeq(s, Len(s), Len(s)) \in Whitespace
    THEN rstrip(SubSeq(s, 1, Len(s) - 1))
    ELSE s

\* str.strip()
strip(s) == rstrip(lstrip(s))

\* s.startswith(p)
StartsWith(p, s) == Len(s) >= Len(p) /\ SubSeq(s, 1, Len(p)) = p

\* s.find(sub) + 1: the position of the first occurrence, 0 when none
Find(sub, s) ==
    IF Contains(sub, s)
    THEN CHOOSE i \in 1..(Len(s) - Len(sub) + 1) :
            /\ SubSeq(s, i, i + Len(sub) - 1) = sub
            /\ \A j \in 1..(i - 1) : SubSeq(s, j, j + Len(sub) - 1) # sub
    ELSE 0

\* s.replace(old, new): every occurrence, left to right, without overlap
RECURSIVE Replace(_, _, _)
Replace(s, old, new) ==
    LET i == Find(old, s)
    IN IF i = 0 THEN s
       ELSE SubSeq(s, 1, i - 1) \o new
            \o Replace(SubSeq(s, i + Len(old), Len(s)), old, new)

\* s.replace(a, b) for single characters a, b
RECURSIVE ReplaceChar(_, _, _)
ReplaceChar(s, a, b) ==
    IF Len(s) = 0 THEN ""
    ELSE (IF SubSeq(s, 1, 1) = a THEN b ELSE SubSeq(s, 1, 1))
         \o ReplaceChar(SubSeq(s, 2, Len(s)), a, b)

\* f"src/{package_name}/_version.py"
VersionFile(o) == "src/" \o o.package \o "/_version.py"

\* string.Template.idpattern: (?a:[_a-z][_a-z0-9]*), case ignored
IdStart ==
    {"_", "a", "b", "c", "d", "e", "f", "g", "h", "i", "j", "k", "l", "m",
     "n", "o", "p", "q", "r", "s", "t", "u", "v", "w", "x", "y", "z",
     "A", "B", "C", "D", "E", "F", "G", "H", "I", "J", "K", "L", "M",
     "N", "O", "P", "Q", "R", "S", "T", "U", "V", "W", "X", "Y", "Z"}

IdChar == IdStart \cup {"0", "1", "2", "3", "4", "5", "6", "7", "8", "9"}

\* the length of the identifier s starts with, 0 when it starts with none
IdLen(s) ==
    IF Len(s) > 0 /\ SubSeq(s, 1, 1) \in IdStart
    THEN CHOOSE n \in 1..Len(s) :
            /\ \A i \in 1..n : SubSeq(s, i, i) \in IdChar
            /\ n < Len(s) => SubSeq(s, n + 1, n + 1) \notin IdChar
    ELSE 0

(***************************************************************************)
(* Contents and leaves (pyscaffold.structure)                              *)
(***************************************************************************)
NoneC == [kind |-> "none", val |-> 0]
StrC(text) == [kind |-> "str", val |-> text]
FnC(ret) == [kind |-> "fn", val |-> ret]
TmplC(text) == [kind |-> "tmpl", val |-> text]
IntC == [kind |-> "int", val |-> 0]

Leaf(content, op) == [kind |-> "leaf", tup |-> TRUE, content |-> content, op |-> op]
BareLeaf(content) == [kind |-> "leaf", tup |-> FALSE, content |-> content, op |-> "None"]
Dir(kids) == [kind |-> "dir", kids |-> kids]
EmptyDir == Dir(<<>>)

\* resolve_leaf: a tuple is returned as is, a bare content gets the default
\* file operation `create`.
resolve_leaf(leaf) ==
    IF leaf.tup THEN <<leaf.content, leaf.op>> ELSE <<leaf.content, "create">>

\* string.Template.safe_substitute(opts) on a template text, one pass from
\* the left: $$ gives $, $name and ${name} give the value of the key name
\* when opts holds it and stay as they are when it does not, and a $ that
\* starts none of these stays.
RECURSIVE SafeSubstitute(_, _)
SafeSubstitute(s, o) ==
    LET d == Find("$", s)
        rest == SubSeq(s, d + 1, Len(s))
        n == IdLen(rest)
        m == IF StartsWith("{", rest) THEN IdLen(SubSeq(rest, 2, Len(rest))) ELSE 0
        braced == m > 0 /\ Len(rest) >= m + 2 /\ SubSeq(rest, m + 2, m + 2) = "}"
        named == SubSeq(rest, 1, n)
        inner == SubSeq(rest, 2, m + 1)
    IN IF d = 0 THEN s
       ELSE SubSeq(s, 1, d - 1)
            \o (IF StartsWith("$", rest)
                THEN "$" \o SafeSubstitute(SubSeq(rest, 2, Len(rest)), o)
                ELSE IF n > 0
                THEN (IF named \in DOMAIN o THEN o[named] ELSE "$" \o named)
                     \o SafeSubstitute(SubSeq(rest, n + 1, Len(rest)), o)
                ELSE IF braced
                THEN (IF inner \in DOMAIN o THEN o[inner] ELSE "${" \o inner \o "}")
                     \o SafeSubstitute(SubSeq(rest, m + 3, Len(rest)), o)
                ELSE "$" \o SafeSubstitute(rest, o))

\* reify_content: call a deferred producer, substitute a Template, and pass
\* anything else through.
reify_content(content, o) ==
    CASE content.kind = "fn" -> content.val
      [] content.kind = "tmpl" -> StrC(SafeSubstitute(content.val, o))
      [] OTHER -> content

(***************************************************************************)
(* ConfigUpdater documents (pyscaffold.update.ConfigUpdater)               *)
(*                                                                         *)
(* A document is a sequence of top-level blocks [t, k, body]: a section    *)
(* "sec" named k with its body, or a "com"/"blank" line that precedes the  *)
(* first section.  A body is a sequence of blocks [t, k, v, more, noval]:  *)
(* an option "opt" k with first-line value v and continuation lines more   *)
(* (noval: the key stands alone, without delimiter), a "com" or a "blank". *)
(* Option keys of the model are lower case, as optionxform makes them.     *)
(***************************************************************************)
Line(t, k, v) == [t |-> t, k |-> k, v |-> v]
Top(t, k, body) == [t |-> t, k |-> k, body |-> body]
Block(t, k) == [t |-> t, k |-> k, v |-> "", more |-> <<>>, noval |-> FALSE]
OptBlock(k, v, more) == [t |-> "opt", k |-> k, v |-> v, more |-> more, noval |-> FALSE]
NoValBlock(k) == [t |-> "opt", k |-> k, v |-> "", more |-> <<>>, noval |-> TRUE]

has_section(doc, name) == \E i \in 1..Len(doc) : doc[i].t = "sec" /\ doc[i].k = name

SectionIdx(doc, name) ==
    IF has_section(doc, name)
    THEN CHOOSE i \in 1..Len(doc) : doc[i].t = "sec" /\ doc[i].k = name
    ELSE 0

has_option(body, key) == \E i \in 1..Len(body) : body[i].t = "opt" /\ body[i].k = key

OptionIdx(body, key) ==
    IF has_option(body, key)
    THEN CHOOSE i \in 1..Len(body) : body[i].t = "opt" /\ body[i].k = key
    ELSE 0

AddToLast(doc, b) ==
    [doc EXCEPT ![Len(doc)] = [@ EXCEPT !.body = Append(@, b)]]

\* ConfigUpdater.read_string (strict): sections and options are unique,
\* an option needs a section, a continuation line needs an option.
RECURSIVE ParseLines(_, _, _)
ParseLines(lines, i, doc) ==
    IF i > Len(lines) THEN Ok(doc)
    ELSE
      LET ln == lines[i]
          n == Len(doc)
          insec == n > 0 /\ doc[n].t = "sec"
          body == IF insec THEN doc[n].body ELSE <<>>
          m == Len(body)
      IN CASE ln.t = "sec" ->
                IF has_section(doc, ln.k) THEN Raise("DuplicateSectionError")
                ELSE ParseLines(lines, i + 1, Append(doc, Top("sec", ln.k, <<>>)))
           [] ln.t \in {"com", "blank"} ->
                IF insec
                THEN ParseLines(lines, i + 1, AddToLast(doc, Block(ln.t, ln.k)))
                ELSE ParseLines(lines, i + 1, Append(doc, Top(ln.t, ln.k, <<>>)))
           [] ln.t = "opt" ->
                IF ~insec THEN Raise("MissingSectionHeaderError")
                ELSE IF has_option(body, ln.k) THEN Raise("DuplicateOptionError")
                ELSE ParseLines(lines, i + 1,
                                AddToLast(doc, OptBlock(ln.k, ln.v, <<>>)))
           [] ln.t = "cont" ->
                IF insec /\ m > 0 /\ body[m].t = "opt" /\ ~body[m].noval
                THEN ParseLines(lines, i + 1,
                       [doc EXCEPT ![n] = [@ EXCEPT !.body =
                          [@ EXCEPT ![m] = [@ EXCEPT !.more = Append(@, ln.v)]]]])
                ELSE Raise("ParsingError")
           [] OTHER ->
                IF ~insec THEN Raise("MissingSectionHeaderError")
                ELSE Raise("ParsingError")

\* read_string of a resolved content: io.StringIO accepts a str or None
\* (an empty document) and rejects anything else.
read_string(content) ==
    CASE content.kind = "str" -> ParseLines(content.val, 1, <<>>)
      [] content.kind = "none" -> Ok(<<>>)
      [] OTHER -> Raise("TypeError")

RenderBlock(b) ==
    IF b.t = "opt"
    THEN IF b.noval THEN <<Line("key", b.k, "")>>
         ELSE <<Line("opt", b.k, b.v)>>
              \o [j \in 1..Len(b.more) |-> Line("cont", "", b.more[j])]
    ELSE <<Line(b.t, b.k, "")>>

RECURSIVE RenderBody(_)
RenderBody(body) ==
    IF body = <<>> THEN <<>>
    ELSE RenderBlock(Head(body)) \o RenderBody(Tail(body))

\* str(document)
RECURSIVE RenderDoc(_)
RenderDoc(doc) ==
    IF doc = <<>> THEN <<>>
    ELSE <<Line(Head(doc).t, Head(doc).k, "")>>
         \o RenderBody(Head(doc).body) \o RenderDoc(Tail(doc))

\* mutant: the new values are added to the ones the option holds
set_values_append(opt, values) ==
    [opt EXCEPT !.more = @ \o values, !.noval = FALSE]

\* Option.set_values: the value becomes the list, one item per
\* continuation line, replacing whatever the option held.
set_values(opt, values) == [opt EXCEPT !.v = "", !.more = values, !.noval = FALSE]

\* Section.set: overwrite the option's value, or append a new option.
SectionSet(sec, key, value) ==
    LET i == OptionIdx(sec.body, key)
    IN IF i > 0
       THEN [sec EXCEPT !.body[i] = OptBlock(key, value, <<>>)]
       ELSE [sec EXCEPT !.body = Append(@, OptBlock(key, value, <<>>))]

\* ConfigUpdater.add_section: a new, empty section at the end.
add_section(doc, name) == Append(doc, Top("sec", name, <<>>))

(***************************************************************************)
(* The structured-config patcher (extension.py, modify_setupcfg)           *)
(***************************************************************************)
REQUIREMENT_DEPENDENCIES ==
    << "importlib-metadata; python_version>\"3.9\"",
       "click>=8.0",
       "pytest",
       "pytest-cov" >>

\* add_install_requires: setupcfg["options"]["install_requires"] must exist
\* (KeyError otherwise); its values become the fixed list.
add_install_requires(doc, o) ==
    LET s == SectionIdx(doc, "options")
        i == IF s = 0 THEN 0 ELSE OptionIdx(doc[s].body, "install_requires")
    IN IF s = 0 \/ i = 0 THEN Raise("KeyError")
       ELSE Ok([doc EXCEPT ![s].body[i] = set_values(@, REQUIREMENT_DEPENDENCIES)])

\* mutant: the comment and the option are added after install_requires
py_requires_after(doc, o) ==
    LET s == SectionIdx(doc, "options")
        i == IF s = 0 THEN 0 ELSE OptionIdx(doc[s].body, "install_requires")
    IN IF s = 0 \/ i = 0 THEN Raise("KeyError")
       ELSE IF has_option(doc[s].body, "python_requires")
       THEN Raise("DuplicateOptionError")
       ELSE Ok([doc EXCEPT ![s].body =
                  SeqInsert(
                    SeqInsert(@, i + 1, Block("com", "Minimum Python Version 3.9 required")),
                    i + 2, OptBlock("python_requires", ">=3.9,<3.13", <<>>))])


\* py_requires: add_before(install_requires).comment(...).option(...); the
\* builder refuses an option key the section already holds.
py_requires(doc, o) ==
    LET s == SectionIdx(doc, "options")
        i == IF s = 0 THEN 0 ELSE OptionIdx(doc[s].body, "install_requires")
    IN IF s = 0 \/ i = 0 THEN Raise("KeyError")
       ELSE IF has_option(doc[s].body, "python_requires")
       THEN Raise("DuplicateOptionError")
       ELSE Ok([doc EXCEPT ![s].body =
                  SeqInsert(
                    SeqInsert(@, i, Block("com", "Minimum Python Version 3.9 required")),
                    i + 1, OptBlock("python_requires", ">=3.9,<3.13", <<>>))])

\* "{package} = {package}.cli:cli".format(**opts)
EntryPointValue(o) == o.package \o " = " \o o.package \o ".cli:cli"

\* add_entry_point: create [options.entry_points] right after [options] when
\* absent, insert a fresh console_scripts option as its first block (refused
\* when the section already holds one), and set its single value.
add_entry_point(doc, o) ==
    LET s == SectionIdx(doc, "options")
        withsec == IF has_section(doc, "options.entry_points") THEN doc
                   ELSE SeqInsert(doc, s + 1, Top("sec", "options.entry_points", <<>>))
        e == SectionIdx(withsec, "options.entry_points")
    IN IF ~has_section(doc, "options.entry_points") /\ s = 0 THEN Raise("KeyError")
       ELSE IF has_option(withsec[e].body, "console_scripts")
       THEN Raise("DuplicateOptionError")
       ELSE Ok([withsec EXCEPT ![e].body =
                  <<set_values(NoValBlock("console_scripts"), <<EntryPointValue(o)>>)>>
                  \o @])

\* reduce(lambda acc, fn: fn(acc, opts), modifiers, setupcfg): the first
\* modifier that raises ends the fold.
ApplyModifiers(doc, o) ==
    LET r1 == add_install_requires(doc, o)
        r2 == IF r1.err = "" THEN py_requires(r1.val, o) ELSE r1
        r3 == IF r2.err = "" THEN add_entry_point(r2.val, o) ELSE r2
    IN r3

\* mutant: the None check is dropped
modify_setupcfg_unchecked(leaf, o) ==
    LET rl == resolve_leaf(leaf)
        parsed == read_string(reify_content(rl[1], o))
        patched == IF parsed.err = "" THEN ApplyModifiers(parsed.val, o) ELSE parsed
    IN IF patched.err # "" THEN patched
       ELSE Ok(Leaf(StrC(RenderDoc(patched.val)), rl[2]))

\* modify_setupcfg: returns Ok(leaf) with the patched text and the resolved
\* file operation, or Raise(e).
modify_setupcfg(leaf, o) ==
    LET rl == resolve_leaf(leaf)
        contents == rl[1]
        original_op == rl[2]
        parsed == read_string(reify_content(contents, o))
        patched == IF parsed.err = "" THEN ApplyModifiers(parsed.val, o) ELSE parsed
    IN IF contents.kind = "none" THEN Raise("ValueError")
       ELSE IF patched.err # "" THEN patched
       ELSE Ok(Leaf(StrC(RenderDoc(patched.val)), original_op))

(***************************************************************************)
(* The project tree (pyscaffold.structure merge / reject)                  *)
(***************************************************************************)
Has(node, name) == node.kind = "dir" /\ name \in DOMAIN node.kids

\* the node at a path (a sequence of names), or EmptyDir's absence marker
RECURSIVE HasPath(_, _)
HasPath(node, path) ==
    IF path = <<>> THEN TRUE
    ELSE Has(node, Head(path)) /\ HasPath(node.kids[Head(path)], Tail(path))

RECURSIVE NodeAt(_, _)
NodeAt(node, path) ==
    IF path = <<>> THEN node ELSE NodeAt(node.kids[Head(path)], Tail(path))

\* struct[name] = leaf (item assignment on the root dict)
SetItem(node, name, leaf) ==
    Dir([k \in DOMAIN node.kids \cup {name} |->
            IF k = name THEN leaf ELSE node.kids[k]])

\* _merge_leaf: the new content and the new operation win unless None; with
\* no operation on either side the result is the bare content.
merge_leaf(old, new) ==
    LET contents == IF new.content.kind # "none" THEN new.content ELSE old.content
        file_op == IF new.op # "None" THEN new.op ELSE old.op
    IN IF file_op = "None" THEN BareLeaf(contents) ELSE Leaf(contents, file_op)

\* merge: a deep dict merge; two leaves are merged by merge_leaf, anything
\* else is replaced by the new value.
RECURSIVE merge(_, _)
merge(old, new) ==
    Dir([k \in DOMAIN old.kids \cup DOMAIN new.kids |->
           IF k \notin DOMAIN new.kids THEN old.kids[k]
           ELSE IF k \notin DOMAIN old.kids THEN new.kids[k]
           ELSE LET ov == old.kids[k]
                    nv == new.kids[k]
                IN IF nv.kind = "dir" /\ ov.kind = "dir" THEN merge(ov, nv)
                   ELSE IF nv.kind = "leaf" /\ ov.kind = "leaf"
                           /\ ~(~ov.tup /\ ov.content.kind = "none")
                   THEN merge_leaf(ov, nv)
                   ELSE nv])

\* reject: delete the entry at the path when every ancestor is there; an
\* absent path is left alone.
RECURSIVE reject(_, _)
reject(node, path) ==
    IF ~Has(node, Head(path)) THEN node
    ELSE IF Len(path) = 1
    THEN Dir([k \in DOMAIN node.kids \ {Head(path)} |-> node.kids[k]])
    ELSE Dir([node.kids EXCEPT ![Head(path)] = reject(@, Tail(path))])

(***************************************************************************)
(* The steps the extension registers (extension.py)                        *)
(* Each step maps (struct, opts) to Ok(struct) or Raise(exception).        *)
(***************************************************************************)
NO_OVERWRITE == "no_overwrite"

\* get_template(name, relative_to=my_templates): a string.Template
get_template(name) == TmplC("# " \o name \o " of ${package}\n")

\* mutant: the runner is added as a bare content, without a write-policy
AddedFiles_bare_runner(o) ==
    Dir(("src" :> Dir(o.package :>
                        Dir(("cli.py" :> Leaf(get_template("cli"), NO_OVERWRITE))
                         @@ ("api.py" :> Leaf(get_template("api"), NO_OVERWRITE)))))
     @@ ("__main__.py" :> BareLeaf(get_template("runner")))
     @@ ("tests" :> Dir("conftest.py" :> Leaf(get_template("conftest"), NO_OVERWRITE))))

\* the additions of add_files other than setup.cfg
AddedFiles(o) ==
    Dir(("src" :> Dir(o.package :>
                        Dir(("cli.py" :> Leaf(get_template("cli"), NO_OVERWRITE))
                         @@ ("api.py" :> Leaf(get_template("api"), NO_OVERWRITE)))))
     @@ ("__main__.py" :> Leaf(get_template("runner"), NO_OVERWRITE))
     @@ ("tests" :> Dir("conftest.py" :> Leaf(get_template("conftest"), NO_OVERWRITE))))

\* add_files: struct["setup.cfg"] is read unconditionally (KeyError when the
\* tree has no such entry), patched, and merged with the new files.
add_files(st, o) ==
    IF ~Has(st, "setup.cfg") THEN Raise("KeyError")
    ELSE IF st.kids["setup.cfg"].kind # "leaf" THEN Raise("TypeError")
    ELSE LET r == modify_setupcfg(st.kids["setup.cfg"], o)
         IN IF r.err # "" THEN r
            ELSE Ok(merge(st, SetItem(AddedFiles(o), "setup.cfg", r.val)))

\* mutant: the package directory is left out of the rejected path
reject_file_flat(st, o) == Ok(reject(st, <<"src", "skeleton.py">>))

\* reject_file
reject_file(st, o) == Ok(reject(st, <<"src", o.package, "skeleton.py">>))

\* remove_setup_py
remove_setup_py(st, o) == Ok(reject(st, <<"setup.py">>))

\* the call modify_setup_py looks for, and what it puts in its place
ScmSetupCall == "setup(use_scm_version={\"version_scheme\": \"no-guess-dev\"})"
PlainSetupCall == "setup(use_scm_version=True)  # Removed explicit \"no-guess-dev\""

\* modify_setup_py (its registration is commented out; the function is public)
modify_setup_py(st, o) ==
    IF ~Has(st, "setup.py") THEN Ok(st)
    ELSE IF st.kids["setup.py"].kind # "leaf" THEN Raise("TypeError")
    ELSE LET rl == resolve_leaf(st.kids["setup.py"])
             contents == reify_content(rl[1], o)
         IN IF contents.kind # "str" THEN Raise("TypeError")
            ELSE Ok(SetItem(st, "setup.py",
                            Leaf(StrC(Replace(contents.val, ScmSetupCall, PlainSetupCall)),
                                 rl[2])))

\* Section.set for each (key, value) of a list, in order
RECURSIVE SetAll(_, _)
SetAll(sec, kvs) ==
    IF kvs = <<>> THEN sec
    ELSE SetAll(SectionSet(sec, Head(kvs)[1], Head(kvs)[2]), Tail(kvs))

\* one block of modify_pyproject_toml: ensure the section, set its keys and,
\* for the first two sections, add a blank line after it (add_after.space(1))
PatchSection(doc, name, kvs, space) ==
    LET d1 == IF has_section(doc, name) THEN doc ELSE add_section(doc, name)
        i == SectionIdx(d1, name)
        d2 == [d1 EXCEPT ![i] = SetAll(@, kvs)]
    IN IF space THEN SeqInsert(d2, i + 1, Top("blank", "", <<>>)) ELSE d2

\* mutant: write_to is not derived from the package
ScmSettings_no_package(o) ==
    << <<"version_scheme", "\"guess-next-dev\"">>,
       <<"local_scheme", "\"node-and-date\"">>,
       <<"write_to", "\"src/_version.py\"">> >>

ScmSettings(o) ==
    << <<"version_scheme", "\"guess-next-dev\"">>,
       <<"local_scheme", "\"node-and-date\"">>,
       <<"write_to", "\"" \o VersionFile(o) \o "\"">> >>

BlackSettings ==
    << <<"line-length", "120">>,
       <<"target-version", "[\"py312\"]">>,
       <<"skip-string-normalization", "true">> >>

PytestSettings ==
    << <<"log_cli", "true">>,
       <<"log_cli_level", "\"INFO\"">>,
       <<"log_cli_format",
         "\"%(asctime)s [%(levelname)8s] %(message)s (%(filename)s:%(lineno)s)\"">>,
       <<"log_cli_date_format", "\"%d/%m/%Y %H:%M:%S\"">> >>

PatchPyproject(doc, o) ==
    PatchSection(
      PatchSection(
        PatchSection(doc, "tool.setuptools_scm", ScmSettings(o), TRUE),
        "tool.black", BlackSettings, TRUE),
      "tool.pytest.ini_options", PytestSettings, FALSE)

\* mutant: content that is not text is taken as an empty document
modify_pyproject_toml_coerce(st, o) ==
    IF ~Has(st, "pyproject.toml") THEN Ok(st)
    ELSE IF st.kids["pyproject.toml"].kind # "leaf" THEN Raise("TypeError")
    ELSE LET rl == resolve_leaf(st.kids["pyproject.toml"])
             contents == reify_content(rl[1], o)
             parsed == IF contents.kind = "str" THEN read_string(contents) ELSE Ok(<<>>)
         IN IF parsed.err # "" THEN parsed
            ELSE Ok(SetItem(st, "pyproject.toml",
                            Leaf(StrC(RenderDoc(PatchPyproject(parsed.val, o))), rl[2])))


\* mutant: the rewritten leaf always gets the never-overwrite policy
modify_pyproject_toml_no_overwrite(st, o) ==
    IF ~Has(st, "pyproject.toml") THEN Ok(st)
    ELSE IF st.kids["pyproject.toml"].kind # "leaf" THEN Raise("TypeError")
    ELSE LET rl == resolve_leaf(st.kids["pyproject.toml"])
             contents == reify_content(rl[1], o)
             parsed == read_string(contents)
         IN IF contents.kind # "str" THEN Raise("TypeError")
            ELSE IF parsed.err # "" THEN parsed
            ELSE Ok(SetItem(st, "pyproject.toml",
                            Leaf(StrC(RenderDoc(PatchPyproject(parsed.val, o))),
                                 "no_overwrite")))


\* modify_pyproject_toml
modify_pyproject_toml(st, o) ==
    IF ~Has(st, "pyproject.toml") THEN Ok(st)
    ELSE IF st.kids["pyproject.toml"].kind # "leaf" THEN Raise("TypeError")
    ELSE LET rl == resolve_leaf(st.kids["pyproject.toml"])
             contents == reify_content(rl[1], o)
             parsed == read_string(contents)
         IN IF contents.kind # "str" THEN Raise("TypeError")
            ELSE IF parsed.err # "" THEN parsed
            ELSE Ok(SetItem(st, "pyproject.toml",
                            Leaf(StrC(RenderDoc(PatchPyproject(parsed.val, o))), rl[2])))

\* mutant: a missing .gitignore is created with the entry
modify_gitignore_creates(st, o) ==
    IF ~Has(st, ".gitignore")
    THEN Ok(SetItem(st, ".gitignore", Leaf(StrC(VersionFile(o) \o "\n"), "create")))
    ELSE IF st.kids[".gitignore"].kind # "leaf" THEN Raise("TypeError")
    ELSE LET rl == resolve_leaf(st.kids[".gitignore"])
             contents == reify_content(rl[1], o)
         IN IF contents.kind # "str" THEN Raise("TypeError")
            ELSE IF Contains(VersionFile(o), contents.val) THEN Ok(st)
            ELSE Ok(SetItem(st, ".gitignore",
                            Leaf(StrC(strip(contents.val) \o "\n" \o VersionFile(o) \o "\n"),
                                 rl[2])))


\* mutant: the entry is appended without looking for it first
modify_gitignore_always(st, o) ==
    IF ~Has(st, ".gitignore") THEN Ok(st)
    ELSE IF st.kids[".gitignore"].kind # "leaf" THEN Raise("TypeError")
    ELSE LET rl == resolve_leaf(st.kids[".gitignore"])
             contents == reify_content(rl[1], o)
         IN IF contents.kind # "str" THEN Raise("TypeError")
            ELSE Ok(SetItem(st, ".gitignore",
                            Leaf(StrC(strip(contents.val) \o "\n" \o VersionFile(o) \o "\n"),
                                 rl[2])))


\* mutant: content that is not text is skipped instead of raising
modify_gitignore_lenient(st, o) ==
    IF ~Has(st, ".gitignore") THEN Ok(st)
    ELSE IF st.kids[".gitignore"].kind # "leaf" THEN Ok(st)
    ELSE LET rl == resolve_leaf(st.kids[".gitignore"])
             contents == reify_content(rl[1], o)
         IN IF contents.kind # "str" THEN Ok(st)
            ELSE IF Contains(VersionFile(o), contents.val) THEN Ok(st)
            ELSE Ok(SetItem(st, ".gitignore",
                            Leaf(StrC(strip(contents.val) \o "\n" \o VersionFile(o) \o "\n"),
                                 rl[2])))

\* modify_gitignore
modify_gitignore(st, o) ==
    IF ~Has(st, ".gitignore") THEN Ok(st)
    ELSE IF st.kids[".gitignore"].kind # "leaf" THEN Raise("TypeError")
    ELSE LET rl == resolve_leaf(st.kids[".gitignore"])
             contents == reify_content(rl[1], o)
         IN IF contents.kind # "str" THEN Raise("TypeError")
            ELSE IF Contains(VersionFile(o), contents.val) THEN Ok(st)
            ELSE Ok(SetItem(st, ".gitignore",
                            Leaf(StrC(strip(contents.val) \o "\n" \o VersionFile(o) \o "\n"),
                                 rl[2])))

(***************************************************************************)
(* Registration (extension.py, Clickstart.activate)                        *)
(***************************************************************************)
\* pyscaffold.actions.DEFAULT, the host's action list
DEFAULT ==
    << "get_default_options", "verify_options_consistency", "define_structure",
       "verify_project_dir", "version_migration", "create_structure",
       "init_git", "report_done" >>

PluginSteps ==
    {"add_files", "reject_file", "modify_pyproject_toml", "modify_gitignore",
     "remove_setup_py"}

IndexOf(acts, name) == CHOOSE i \in 1..Len(acts) : acts[i] = name

\* Extension.register(actions, action) with neither before= nor after=: the
\* action is inserted right after define_structure.
register(acts, action) == SeqInsert(acts, IndexOf(acts, "define_structure") + 1, action)

\* Clickstart.activate
activate(acts) ==
    LET a1 == register(acts, "add_files")
        a2 == register(a1, "reject_file")
        a3 == register(a2, "modify_pyproject_toml")
        a4 == register(a3, "modify_gitignore")
        a5 == register(a4, "remove_setup_py")
    IN a5

(***************************************************************************)
(* Inputs: options and the trees the host's define_structure hands over    *)
(***************************************************************************)
PackageNames == <<"demo", "my_cool_package", "a_b", "pkg2">>
NumPackages == 2
Packages == {PackageNames[i] : i \in 1..NumPackages}

OptsSet == {[project |-> "my-project", package |-> p] : p \in Packages}

FileOps == {"None", "create", "no_overwrite", "skip_on_update"}

\* setup.cfg texts: the host default and variations of it
CfgDefault(o) ==
    << Line("sec", "metadata", ""),
       Line("opt", "name", o.project),
       Line("blank", "", ""),
       Line("sec", "options", ""),
       Line("opt", "zip_safe", "False"),
       Line("com", "python_requires = >=3.8", ""),
       Line("opt", "install_requires", ""),
       Line("cont", "", "importlib-metadata; python_version<\"3.8\""),
       Line("blank", "", ""),
       Line("sec", "options.packages.find", ""),
       Line("opt", "where", "src"),
       Line("blank", "", ""),
       Line("sec", "options.entry_points", ""),
       Line("com", "console_scripts =", "") >>

CfgMinimal ==
    << Line("sec", "options", ""), Line("opt", "install_requires", "") >>

CfgTrailing ==
    << Line("com", "generated", ""),
       Line("sec", "options", ""),
       Line("opt", "install_requires", "click"),
       Line("opt", "tests_require", "pytest"),
       Line("sec", "options.entry_points", "") >>

CfgPinned ==
    << Line("sec", "options", ""),
       Line("opt", "python_requires", ">=3.8"),
       Line("opt", "install_requires", "click") >>

CfgNoRequires ==
    << Line("sec", "options", ""), Line("opt", "zip_safe", "False") >>

CfgNoOptions ==
    << Line("sec", "metadata", ""), Line("opt", "name", "x") >>

CfgScripts(o) ==
    << Line("sec", "options", ""),
       Line("opt", "install_requires", ""),
       Line("sec", "options.entry_points", ""),
       Line("opt", "console_scripts", ""),
       Line("cont", "", o.package \o " = " \o o.package \o ".skeleton:run") >>

CfgMalformed ==
    << Line("opt", "install_requires", ""), Line("sec", "options", "") >>

\* Inputs are kept in tuples and drawn by index: their members are of
\* different shapes.
CfgTexts(o) ==
    << CfgDefault(o), CfgMinimal, CfgTrailing, CfgPinned, CfgNoRequires,
       CfgNoOptions, CfgScripts(o), CfgMalformed >>

CfgContents(o) ==
    <<NoneC, IntC, FnC(NoneC), FnC(IntC)>>
    \o [i \in 1..Len(CfgTexts(o)) |-> StrC(CfgTexts(o)[i])]
    \o [i \in 1..Len(CfgTexts(o)) |-> FnC(StrC(CfgTexts(o)[i]))]

\* a leaf shape: a bare content ("bare"), or a (content, op) tuple
LeafShapes == {"bare"} \cup FileOps

ShapedLeaf(c, shape) == IF shape = "bare" THEN BareLeaf(c) ELSE Leaf(c, shape)

Absent == [kind |-> "absent"]

HostSetupCfg(o) ==
    << Absent,
      Leaf(FnC(StrC(CfgDefault(o))), "no_overwrite"),
      Leaf(NoneC, "no_overwrite"),
      BareLeaf(StrC(CfgMinimal)),
      Leaf(StrC(CfgPinned), "create") >>

PyprojectDefault ==
    << Line("sec", "build-system", ""),
       Line("com", "AVOID CHANGING REQUIRES", ""),
       Line("opt", "requires", "[\"setuptools>=46.1.0\", \"setuptools_scm[toml]>=5\"]"),
       Line("opt", "build-backend", "\"setuptools.build_meta\""),
       Line("blank", "", ""),
       Line("sec", "tool.setuptools_scm", ""),
       Line("com", "For smarter version schemes", ""),
       Line("opt", "version_scheme", "\"no-guess-dev\"") >>

PyprojectBlack ==
    << Line("sec", "tool.black", ""),
       Line("opt", "line-length", "88"),
       Line("blank", "", ""),
       Line("sec", "tool.setuptools_scm", ""),
       Line("opt", "write_to", "\"src/_version.py\"") >>

HostPyproject ==
    << Absent,
      Leaf(FnC(StrC(PyprojectDefault)), "no_overwrite"),
      BareLeaf(StrC(PyprojectBlack)),
      Leaf(FnC(IntC), "no_overwrite") >>

HostGitignore(o) ==
    << Absent,
      Leaf(TmplC("*.pyc\n__pycache__/\n"), "no_overwrite"),
      BareLeaf(StrC("*.pyc")),
      Leaf(StrC("*.pyc\n" \o VersionFile(o) \o "\n"), "create"),
      Leaf(StrC("!docs/" \o VersionFile(o) \o ".in\n"), "no_overwrite"),
      Leaf(NoneC, "no_overwrite") >>

HostSetupPy == <<Absent, BareLeaf(TmplC("setup(use_scm_version=True)\n"))>>
HostSkeleton == <<Absent, Leaf(TmplC("def run(): ...\n"), "skip_on_update")>>
HostTestSkeleton == <<Absent, Leaf(TmplC("def test_main(): ...\n"), "skip_on_update")>>
HostConftest ==
    << Absent,
       Leaf(TmplC("import pytest\n"), "no_overwrite"),
       BareLeaf(StrC("# conftest\n")) >>

\* a dict of the entries that are there
Entries(names, node) ==
    Dir([k \in {n \in names : node[n].kind # "absent"} |-> node[k]])

\* the files of pyscaffold's define_structure this extension touches; src/<pkg>
\* and tests are always directories, src/<pkg>/__init__.py is always there
HostTree(o, cfg, py, toml, git, skel, tskel, conf) ==
    merge(
      Entries({"setup.cfg", "setup.py", "pyproject.toml", ".gitignore"},
              ("setup.cfg" :> cfg) @@ ("setup.py" :> py)
              @@ ("pyproject.toml" :> toml) @@ (".gitignore" :> git)),
      Dir(("src" :> Dir(o.package :>
              merge(Dir("__init__.py" :> BareLeaf(TmplC("# ${package}\n"))),
                    Entries({"skeleton.py"}, "skeleton.py" :> skel))))
       @@ ("tests" :> Entries({"conftest.py", "test_skeleton.py"},
                              ("conftest.py" :> conf) @@ ("test_skeleton.py" :> tskel)))))

(***************************************************************************)
(* The run: the host folds the action list over (struct, opts); an action  *)
(* that raises ends the run.                                               *)
(***************************************************************************)
Pending == [err |-> "pending", val |-> <<>>]

Init ==
    /\ actions = DEFAULT
    /\ pc = 0
    /\ struct = EmptyDir
    /\ host = EmptyDir
    /\ opts \in OptsSet
    /\ err = ""
    /\ ran = <<>>
    /\ definition = BareLeaf(NoneC)
    /\ resolved = Pending

Running(name) ==
    /\ pc \in 1..Len(actions)
    /\ err = ""
    /\ actions[pc] = name

\* the outcome r of the action at pc: Ok moves on, Raise aborts
Outcome(name, r) ==
    /\ ran' = Append(ran, name)
    /\ host' = IF name = "define_structure" THEN r.val ELSE host
    /\ IF r.err = ""
       THEN /\ struct' = r.val
            /\ pc' = pc + 1
            /\ err' = err
       ELSE /\ err' = r.err
            /\ UNCHANGED <<struct, pc>>
    /\ UNCHANGED <<actions, opts, definition, resolved>>

\* the extension is activated on the host's list before the run starts
Activate ==
    /\ pc = 0
    /\ actions' = activate(actions)
    /\ pc' = 1
    /\ UNCHANGED <<struct, host, opts, err, ran, definition, resolved>>

\* host actions that leave the tree alone
HostStep ==
    /\ \E name \in {DEFAULT[i] : i \in 1..Len(DEFAULT)} \ {"define_structure"} :
          /\ Running(name)
          /\ Outcome(name, Ok(struct))

DefineStructure ==
    /\ Running("define_structure")
    /\ \E cfg \in DOMAIN HostSetupCfg(opts), py \in DOMAIN HostSetupPy,
          toml \in DOMAIN HostPyproject, git \in DOMAIN HostGitignore(opts),
          skel \in DOMAIN HostSkeleton, tskel \in DOMAIN HostTestSkeleton,
          conf \in DOMAIN HostConftest :
          Outcome("define_structure",
                  Ok(merge(struct,
                           HostTree(opts, HostSetupCfg(opts)[cfg], HostSetupPy[py],
                                    HostPyproject[toml], HostGitignore(opts)[git],
                                    HostSkeleton[skel], HostTestSkeleton[tskel],
                                    HostConftest[conf]))))

AddFiles == Running("add_files") /\ Outcome("add_files", add_files(struct, opts))

RejectFile == Running("reject_file") /\ Outcome("reject_file", reject_file(struct, opts))

ModifyPyprojectToml ==
    /\ Running("modify_pyproject_toml")
    /\ Outcome("modify_pyproject_toml", modify_pyproject_toml(struct, opts))

ModifyGitignore ==
    /\ Running("modify_gitignore")
    /\ Outcome("modify_gitignore", modify_gitignore(struct, opts))

RemoveSetupPy ==
    /\ Running("remove_setup_py")
    /\ Outcome("remove_setup_py", remove_setup_py(struct, opts))

Next ==
    \/ Activate
    \/ HostStep
    \/ DefineStructure
    \/ AddFiles
    \/ RejectFile
    \/ ModifyPyprojectToml
    \/ ModifyGitignore
    \/ RemoveSetupPy

Spec == Init /\ [][Next]_vars

Done == pc = Len(actions) + 1 /\ err = ""

(***************************************************************************)
(* Unit harness: modify_setupcfg applied to one leaf                       *)
(***************************************************************************)
InitSetupCfg ==
    /\ actions = DEFAULT
    /\ pc = 0
    /\ struct = EmptyDir
    /\ host = EmptyDir
    /\ opts \in OptsSet
    /\ err = ""
    /\ ran = <<>>
    /\ \E i \in DOMAIN CfgContents(opts), shape \in LeafShapes :
          definition = ShapedLeaf(CfgContents(opts)[i], shape)
    /\ resolved = Pending

CallModifySetupcfg ==
    /\ resolved.err = Pending.err
    /\ resolved' = modify_setupcfg(definition, opts)
    /\ UNCHANGED <<actions, pc, struct, host, opts, err, ran, definition>>

NextSetupCfg == CallModifySetupcfg

SpecSetupCfg == InitSetupCfg /\ [][NextSetupCfg]_vars

(***************************************************************************)
(* Unit harness: the setup.cfg modifiers applied to a parsed document      *)
(*   resolved   - the document at hand: read_string's result, then the     *)
(*                result of the last modifier                              *)
(*   definition - the document the last modifier was handed                *)
(*   ran        - the modifiers applied so far                             *)
(***************************************************************************)
MaxModifiers == 3

InitModifiers ==
    /\ actions = DEFAULT
    /\ pc = 0
    /\ struct = EmptyDir
    /\ host = EmptyDir
    /\ opts \in OptsSet
    /\ err = ""
    /\ ran = <<>>
    /\ definition = <<>>
    /\ \E i \in DOMAIN CfgTexts(opts) : resolved = read_string(StrC(CfgTexts(opts)[i]))

\* the fold goes on while no modifier has raised
CanApply ==
    /\ resolved.err = ""
    /\ Len(ran) < MaxModifiers

\* the modifier's result r on the document at hand
Applied(name, r) ==
    /\ definition' = resolved.val
    /\ resolved' = r
    /\ ran' = Append(ran, name)
    /\ UNCHANGED <<actions, pc, struct, host, opts, err>>

CallAddInstallRequires ==
    /\ CanApply
    /\ Applied("add_install_requires", add_install_requires(resolved.val, opts))

CallPyRequires ==
    /\ CanApply
    /\ Applied("py_requires", py_requires(resolved.val, opts))

CallAddEntryPoint ==
    /\ CanApply
    /\ Applied("add_entry_point", add_entry_point(resolved.val, opts))

NextModifiers ==
    \/ CallAddInstallRequires
    \/ CallPyRequires
    \/ CallAddEntryPoint

SpecModifiers == InitModifiers /\ [][NextModifiers]_vars

(***************************************************************************)
(* Unit harness: the patch functions applied, one after another, to a tree *)
(*   host   - the tree before the first patch                              *)
(*   struct - the tree as the patches applied so far left it               *)
(*   ran    - the patch functions applied so far                           *)
(*   err    - "" or the exception the last one raised                      *)
(*   definition, resolved - the leaf add_files last handed to              *)
(*            modify_setupcfg, and what modify_setupcfg returned or raised *)
(***************************************************************************)
MaxGitAtoms == 3
MaxApplications == 3

\* .gitignore texts: every concatenation of up to MaxGitAtoms of these pieces
GitAtoms(o) == <<"*.pyc", "\n", " ", VersionFile(o), ".in", "\r">>

RECURSIVE Concat(_, _)
Concat(atoms, idx) ==
    IF idx = <<>> THEN "" ELSE atoms[Head(idx)] \o Concat(atoms, Tail(idx))

GitTexts(o) ==
    {Concat(GitAtoms(o), idx) :
        idx \in UNION {[1..n -> DOMAIN GitAtoms(o)] : n \in 0..MaxGitAtoms}}

\* .gitignore contents that are not literal text
GitContents(o) ==
    << NoneC, IntC, FnC(NoneC),
       TmplC("*.pyc\n__pycache__/\n"),
       TmplC("*.pyc\nsrc/${package}/_version.py\n"),
       TmplC("# ${project} $$ ${version}\nsrc/$package/_version.py\n"),
       TmplC("# $project costs 5$\r\n*.pyc\r\n"),
       FnC(StrC("*.pyc")) >>

\* setup.py contents: the host's template and variations of it
SetupPyContents ==
    << NoneC, IntC, FnC(IntC),
       TmplC("from setuptools import setup\n" \o ScmSetupCall \o "\n"),
       StrC(ScmSetupCall \o "\n" \o ScmSetupCall),
       StrC("setup(use_scm_version=True)\n"),
       FnC(StrC(PlainSetupCall \o "\n")) >>

TomlContents ==
    << NoneC, IntC, FnC(IntC), StrC(<<>>),
       StrC(PyprojectDefault), StrC(PyprojectBlack), FnC(StrC(PyprojectDefault)) >>

\* a tree with the four files as the host makes them, under one leaf shape
FullTree(o, shape) ==
    Dir(("setup.cfg" :> ShapedLeaf(FnC(StrC(CfgDefault(o))), shape))
     @@ ("setup.py" :> ShapedLeaf(SetupPyContents[4], shape))
     @@ ("pyproject.toml" :> ShapedLeaf(FnC(StrC(PyprojectDefault)), shape))
     @@ (".gitignore" :> ShapedLeaf(TmplC("*.pyc\n__pycache__/\n"), shape)))

InitPatch ==
    /\ actions = DEFAULT
    /\ pc = 0
    /\ opts \in OptsSet
    /\ err = ""
    /\ ran = <<>>
    /\ definition = BareLeaf(NoneC)
    /\ resolved = Pending
    /\ \/ host = EmptyDir
       \/ \E shape \in LeafShapes : host = FullTree(opts, shape)
       \/ \E i \in DOMAIN CfgContents(opts), shape \in LeafShapes :
             host = Dir("setup.cfg" :> ShapedLeaf(CfgContents(opts)[i], shape))
       \/ \E i \in DOMAIN TomlContents, shape \in LeafShapes :
             host = Dir("pyproject.toml" :> ShapedLeaf(TomlContents[i], shape))
       \/ \E i \in DOMAIN GitContents(opts), shape \in LeafShapes :
             host = Dir(".gitignore" :> ShapedLeaf(GitContents(opts)[i], shape))
       \/ \E text \in GitTexts(opts), shape \in LeafShapes :
             host = Dir(".gitignore" :> ShapedLeaf(StrC(text), shape))
       \/ \E i \in DOMAIN SetupPyContents, shape \in LeafShapes :
             host = Dir("setup.py" :> ShapedLeaf(SetupPyContents[i], shape))
    /\ struct = host

\* patches are applied while none has raised
CanPatch ==
    /\ err = ""
    /\ Len(ran) < MaxApplications

\* the outcome r of a patch function on the tree at hand
Patched(name, r) ==
    /\ ran' = Append(ran, name)
    /\ IF r.err = ""
       THEN /\ struct' = r.val
            /\ err' = err
       ELSE /\ err' = r.err
            /\ UNCHANGED struct
    /\ UNCHANGED <<actions, pc, host, opts>>

PatchGitignore ==
    /\ CanPatch
    /\ Patched("modify_gitignore", modify_gitignore(struct, opts))
    /\ UNCHANGED <<definition, resolved>>

PatchPyprojectToml ==
    /\ CanPatch
    /\ Patched("modify_pyproject_toml", modify_pyproject_toml(struct, opts))
    /\ UNCHANGED <<definition, resolved>>

\* add_files, the step that patches setup.cfg: modify_setupcfg is called on
\* struct["setup.cfg"] when the tree holds that leaf
PatchAddFiles ==
    /\ CanPatch
    /\ Patched("add_files", add_files(struct, opts))
    /\ IF Has(struct, "setup.cfg") /\ struct.kids["setup.cfg"].kind = "leaf"
       THEN /\ definition' = struct.kids["setup.cfg"]
            /\ resolved' = modify_setupcfg(struct.kids["setup.cfg"], opts)
       ELSE UNCHANGED <<definition, resolved>>

PatchSetupPy ==
    /\ CanPatch
    /\ Patched("modify_setup_py", modify_setup_py(struct, opts))
    /\ UNCHANGED <<definition, resolved>>

NextPatch ==
    \/ PatchGitignore
    \/ PatchPyprojectToml
    \/ PatchAddFiles
    \/ PatchSetupPy

SpecPatch == InitPatch /\ [][NextPatch]_vars

(***************************************************************************)
(* The placeholder substitution engine (_substitute_brace_vars)            *)
(* An options mapping is a function from the keys it holds to strings.     *)
(***************************************************************************)
\* mutant: `name` is looked up before `project_name`
ProjectValue_name_first(o) ==
    IF "project" \in DOMAIN o THEN o["project"]
    ELSE IF "name" \in DOMAIN o THEN o["name"]
    ELSE IF "project_name" \in DOMAIN o THEN o["project_name"]
    ELSE "project"

\* the project value: `project`, else `project_name`, else `name`, else the
\* literal "project"
ProjectValue(o) ==
    IF "project" \in DOMAIN o THEN o["project"]
    ELSE IF "project_name" \in DOMAIN o THEN o["project_name"]
    ELSE IF "name" \in DOMAIN o THEN o["name"]
    ELSE "project"

\* mutant: without a package key the project value is taken as it is
PackageValue_not_derived(o) ==
    IF "package" \in DOMAIN o THEN o["package"]
    ELSE IF "package_name" \in DOMAIN o THEN o["package_name"]
    ELSE ProjectValue(o)

\* the package value: `package`, else `package_name`, else the project value
\* with hyphens turned into underscores
PackageValue(o) ==
    IF "package" \in DOMAIN o THEN o["package"]
    ELSE IF "package_name" \in DOMAIN o THEN o["package_name"]
    ELSE ReplaceChar(ProjectValue(o), "-", "_")

ProjectPlaceholders == {"project_name", "ProjectName"}
PackagePlaceholders == {"package_name", "PackageName", "package"}

\* one left-to-right pass: a token {{ name }} (white space around the name
\* optional) with a recognized name is replaced by its value, anything else
\* is copied verbatim
RECURSIVE substitute_brace_vars(_, _)
substitute_brace_vars(text, o) ==
    IF Len(text) = 0 THEN ""
    ELSE LET close == IF StartsWith("{{", text)
                      THEN Find("}}", SubSeq(text, 3, Len(text))) ELSE 0
             name == IF close = 0 THEN "" ELSE strip(SubSeq(text, 3, close + 1))
             rest == SubSeq(text, close + 4, Len(text))
         IN IF close > 0 /\ name \in ProjectPlaceholders
            THEN ProjectValue(o) \o substitute_brace_vars(rest, o)
            ELSE IF close > 0 /\ name \in PackagePlaceholders
            THEN PackageValue(o) \o substitute_brace_vars(rest, o)
            ELSE SubSeq(text, 1, 1) \o substitute_brace_vars(SubSeq(text, 2, Len(text)), o)

(***************************************************************************)
(* Unit harness: _substitute_brace_vars applied to a template              *)
(*   definition - the template, as the sequence of its pieces              *)
(*   opts       - the options mapping                                      *)
(*   resolved   - the text returned                                        *)
(***************************************************************************)
MaxPieces == 2

TemplatePieces ==
    << "{{ project_name }}", "{{project_name}}", "{{ ProjectName }}", "{{ProjectName}}",
       "{{ package_name }}", "{{package_name}}", "{{ PackageName }}", "{{PackageName}}",
       "{{package}}", "my-app: ", "{{ version }}" >>

OptionKeys == {"project", "project_name", "name", "package", "package_name"}

\* values for the keys: names with hyphens, and names without
OptionValues ==
    << [project |-> "my-cool-project", project_name |-> "alt-project",
        name |-> "named-project", package |-> "my_pkg", package_name |-> "alt_pkg"],
       [project |-> "plain", project_name |-> "alt_plain",
        name |-> "named", package |-> "pkg", package_name |-> "alt" ] >>

TemplateText(pieces) == Concat(TemplatePieces, pieces)

InitSubstitute ==
    /\ actions = DEFAULT
    /\ pc = 0
    /\ struct = EmptyDir
    /\ host = EmptyDir
    /\ err = ""
    /\ ran = <<>>
    /\ \E keys \in SUBSET OptionKeys, v \in DOMAIN OptionValues :
          opts = [k \in keys |-> OptionValues[v][k]]
    /\ \E n \in 0..MaxPieces : definition \in [1..n -> DOMAIN TemplatePieces]
    /\ resolved = Pending

CallSubstituteBraceVars ==
    /\ resolved.err = Pending.err
    /\ resolved' = Ok(substitute_brace_vars(TemplateText(definition), opts))
    /\ UNCHANGED <<actions, pc, struct, host, opts, err, ran, definition>>

NextSubstitute == CallSubstituteBraceVars

SpecSubstitute == InitSubstitute /\ [][NextSubstitute]_vars

(***************************************************************************)
(* The tests layout (tests_structure.py, amend_tests)                      *)
(***************************************************************************)
SKIP_ON_UPDATE == "skip_on_update"

\* _tests_readme, _unit_test, _integration_test: producers called with opts

\* The README holds backquotes, which a string of this module cannot hold: its
\* text is the sequence of its code points, the backquote being 96.
Upto95 == " !\"#$%&'()*+,-./0123456789:;<=>?@ABCDEFGHIJKLMNOPQRSTUVWXYZ[\\]^_"
From97 == "abcdefghijklmnopqrstuvwxyz{|}~"

\* ord(c) for a line feed or a printable ASCII character other than the backquote
Ord(c) ==
    IF c = "\n" THEN 10
    ELSE IF Contains(c, Upto95) THEN 31 + Find(c, Upto95)
    ELSE 96 + Find(c, From97)

Codes(s) == [i \in 1..Len(s) |-> Ord(SubSeq(s, i, i))]

Backquoted(s) == <<96>> \o Codes(s) \o <<96>>

tests_readme(o) ==
    FnC(StrC(Codes("# Tests\n")
             \o Codes("\n")
             \o Codes("- ") \o Backquoted("unit/") \o Codes(": fast import/smoke tests\n")
             \o Codes("- ") \o Backquoted("integration/")
             \o Codes(": tests that touch the filesystem or run external tools\n")
             \o Codes("\n")
             \o Codes("Run:\n")
             \o Codes("- ") \o Backquoted("pytest") \o Codes(" (all)\n")
             \o Codes("- ") \o Backquoted("pytest -m \"not integration\"")
             \o Codes(" (unit only)\n")
             \o Codes("- ") \o Backquoted("pytest -m integration")
             \o Codes(" (integration only)\n")))

unit_test(o) ==
    FnC(StrC("\"\"\"Unit smoke tests (fast).\"\"\"\n"
             \o "\n"
             \o "import importlib\n"
             \o "\n"
             \o "\n"
             \o "def test_package_importable():\n"
             \o "    importlib.import_module(\"" \o o.package \o "\")\n"))

integration_test(o) ==
    FnC(StrC("\"\"\"Integration-ish smoke tests (filesystem/layout).\"\"\"\n"
             \o "\n"
             \o "from pathlib import Path\n"
             \o "import pytest\n"
             \o "\n"
             \o "\n"
             \o "@pytest.mark.integration\n"
             \o "def test_src_layout_exists():\n"
             \o "    root = Path(__file__).resolve().parents[2]\n"
             \o "    assert (root / \"pyproject.toml\").exists()\n"
             \o "    assert (root / \"src\" / \"" \o o.package \o "\").exists()\n"))

\* the additions of amend_tests
TestsAdditions(o) ==
    Dir("tests" :>
          Dir(("README.md" :> Leaf(tests_readme(o), NO_OVERWRITE))
           @@ ("unit" :> Dir("test_import.py" :> Leaf(unit_test(o), SKIP_ON_UPDATE)))
           @@ ("integration" :>
                 Dir("test_layout.py" :> Leaf(integration_test(o), SKIP_ON_UPDATE)))))

\* mutant: the host's conftest.py is not rejected
amend_tests_keep_conftest(st, o) ==
    Ok(merge(reject(st, <<"tests", "test_skeleton.py">>), TestsAdditions(o)))

\* amend_tests
amend_tests(st, o) ==
    Ok(merge(reject(reject(st, <<"tests", "conftest.py">>),
                    <<"tests", "test_skeleton.py">>),
             TestsAdditions(o)))

(***************************************************************************)
(* Unit harness: amend_tests applied to a tree                             *)
(*   host - the tree handed over, struct - the tree returned               *)
(***************************************************************************)
\* what the tree holds beside tests/
OutsideTests(o) ==
    << EmptyDir,
       Dir(("src" :> Dir(o.package :> Dir("__init__.py" :> BareLeaf(TmplC("# ${package}\n")))))
        @@ ("setup.cfg" :> Leaf(FnC(StrC(CfgDefault(o))), "no_overwrite"))),
       Dir(("README.md" :> Leaf(StrC("# readme\n"), "create"))
        @@ ("conftest.py" :> BareLeaf(StrC("# root conftest\n")))
        @@ ("pyproject.toml" :> Leaf(FnC(StrC(PyprojectDefault)), "no_overwrite"))) >>

HostTestsReadme ==
    <<Absent, Leaf(StrC("# my tests\n"), "create"), BareLeaf(StrC("# my tests\n"))>>

HostTestsUnit ==
    << Absent,
       Dir("test_import.py" :> Leaf(StrC("def test_old(): ...\n"), "no_overwrite")),
       Dir("test_other.py" :> BareLeaf(StrC("def test_other(): ...\n"))) >>

\* a tests/ directory of the input
HostTestsDir(conf, tskel, readme, unit) ==
    Entries({"conftest.py", "test_skeleton.py", "README.md", "unit"},
            ("conftest.py" :> conf) @@ ("test_skeleton.py" :> tskel)
            @@ ("README.md" :> readme) @@ ("unit" :> unit))

InitAmendTests ==
    /\ actions = DEFAULT
    /\ pc = 0
    /\ opts \in OptsSet
    /\ err = ""
    /\ ran = <<>>
    /\ definition = BareLeaf(NoneC)
    /\ resolved = Pending
    /\ \E out \in DOMAIN OutsideTests(opts) :
          \/ host = OutsideTests(opts)[out]
          \/ \E conf \in DOMAIN HostConftest, tskel \in DOMAIN HostTestSkeleton,
                readme \in DOMAIN HostTestsReadme, unit \in DOMAIN HostTestsUnit :
                host = merge(OutsideTests(opts)[out],
                             Dir("tests" :> HostTestsDir(HostConftest[conf],
                                                         HostTestSkeleton[tskel],
                                                         HostTestsReadme[readme],
                                                         HostTestsUnit[unit])))
    /\ struct = host

CallAmendTests ==
    /\ ran = <<>>
    /\ LET r == amend_tests(struct, opts)
       IN /\ struct' = r.val
          /\ err' = r.err
    /\ ran' = <<"amend_tests">>
    /\ UNCHANGED <<actions, pc, host, opts, definition, resolved>>

NextAmendTests == CallAmendTests

SpecAmendTests == InitAmendTests /\ [][NextAmendTests]_vars

(***************************************************************************)
(* Properties                                                              *)
(***************************************************************************)
InRan(name) == \E i \in 1..Len(ran) : ran[i] = name

LastRan == IF ran = <<>> THEN "" ELSE ran[Len(ran)]

\* the action has run and returned (it did not raise)
Returned(name) == InRan(name) /\ ~(err # "" /\ LastRan = name)

Pos(name) == IndexOf(actions, name)

SkeletonPath == <<"src", opts.package, "skeleton.py">>
TestSkeletonPath == <<"tests", "test_skeleton.py">>

\* the never-overwrite leaf at a path
IsNoOverwriteLeaf(path) ==
    /\ HasPath(struct, path)
    /\ NodeAt(struct, path).kind = "leaf"
    /\ NodeAt(struct, path).tup
    /\ NodeAt(struct, path).op = "no_overwrite"

\* the text a leaf resolves to, as the host will write it
ResolvedKind(leaf) ==
    IF leaf.kind # "leaf" THEN "dir" ELSE reify_content(resolve_leaf(leaf)[1], opts).kind

\* C1: in the list activate returns, the plugin's steps come after
\* define_structure in the order add_files, modify_pyproject_toml,
\* modify_gitignore, then the rejects (reject_file, remove_setup_py).
C1_FixedOrder ==
    pc >= 1 =>
      /\ Pos("define_structure") < Pos("add_files")
      /\ Pos("add_files") < Pos("modify_pyproject_toml")
      /\ Pos("modify_pyproject_toml") < Pos("modify_gitignore")
      /\ Pos("modify_gitignore") < Pos("reject_file")
      /\ Pos("modify_gitignore") < Pos("remove_setup_py")

\* C2: each reject runs after define_structure; once it has run the rejected
\* path is out of the tree and stays out, so a complete run ends without
\* src/<package>/skeleton.py and without setup.py.
C2_RejectsHold ==
    /\ \A i \in 1..Len(ran) :
          ran[i] \in {"reject_file", "remove_setup_py"}
             => \E j \in 1..(i - 1) : ran[j] = "define_structure"
    /\ InRan("reject_file") => ~HasPath(struct, SkeletonPath)
    /\ InRan("remove_setup_py") => ~Has(struct, "setup.py")
    /\ Done => /\ InRan("reject_file")
               /\ InRan("remove_setup_py")
               /\ ~HasPath(struct, SkeletonPath)
               /\ ~Has(struct, "setup.py")

C2_Witness ==
    /\ Done
    /\ HasPath(host, SkeletonPath)
    /\ Has(host, "setup.py")

\* C3: add_files on a tree without setup.cfg completes without raising, adds
\* the CLI/API/runner/conftest files and creates no setup.cfg entry.
C3_SkipsAbsentSetupCfg ==
    (LastRan = "add_files" /\ ~Has(host, "setup.cfg")) =>
      /\ err = ""
      /\ HasPath(struct, <<"src", opts.package, "cli.py">>)
      /\ HasPath(struct, <<"src", opts.package, "api.py">>)
      /\ Has(struct, "__main__.py")
      /\ HasPath(struct, <<"tests", "conftest.py">>)
      /\ ~Has(struct, "setup.cfg")

\* C4: a complete run ends with no setup.cfg in the tree.
C4_NoSetupCfg == Done => ~Has(struct, "setup.cfg")

\* C5: a complete run on a tree where the host created tests/test_skeleton.py
\* ends without that path.
C5_NoTestSkeleton ==
    (Done /\ HasPath(host, TestSkeletonPath)) => ~HasPath(struct, TestSkeletonPath)

\* C6: once add_files has returned, src/<package>/cli.py, src/<package>/api.py,
\* __main__.py at the root and tests/conftest.py are leaves of the tree, each
\* with the never-overwrite policy.
C6_AddedNoOverwrite ==
    Returned("add_files") =>
      /\ IsNoOverwriteLeaf(<<"src", opts.package, "cli.py">>)
      /\ IsNoOverwriteLeaf(<<"src", opts.package, "api.py">>)
      /\ IsNoOverwriteLeaf(<<"__main__.py">>)
      /\ IsNoOverwriteLeaf(<<"tests", "conftest.py">>)

C6_Witness ==
    /\ LastRan = "add_files"
    /\ err = ""
    /\ HasPath(host, <<"tests", "conftest.py">>)
    /\ ~NodeAt(host, <<"tests", "conftest.py">>).tup

\* C7: a complete run ends with __main__.py inside the package directory,
\* next to __init__.py, cli.py and api.py.
C7_RunnerInPackage ==
    Done => /\ HasPath(struct, <<"src", opts.package, "__main__.py">>)
            /\ HasPath(struct, <<"src", opts.package, "__init__.py">>)
            /\ HasPath(struct, <<"src", opts.package, "cli.py">>)
            /\ HasPath(struct, <<"src", opts.package, "api.py">>)

\* the value of an option of a section of a config text, "" when it is not there
OptionValue(text, section, key) ==
    LET r == ParseLines(text, 1, <<>>)
        s == IF r.err = "" THEN SectionIdx(r.val, section) ELSE 0
        i == IF s = 0 THEN 0 ELSE OptionIdx(r.val[s].body, key)
    IN IF i = 0 THEN "" ELSE r.val[s].body[i].v

\* C8: after a complete run on a tree holding pyproject.toml and .gitignore,
\* write_to of [tool.setuptools_scm] is the quoted path src/<package>/_version.py
\* and .gitignore holds that same path; an entry the run appended is that path
\* on a line of its own.
C8_SameVersionPath ==
    (Done /\ Has(host, "pyproject.toml") /\ Has(host, ".gitignore")) =>
      LET path == "src/" \o opts.package \o "/_version.py"
          toml == struct.kids["pyproject.toml"].content
          git == struct.kids[".gitignore"].content
          before == reify_content(resolve_leaf(host.kids[".gitignore"])[1], opts)
          entry == "\n" \o path \o "\n"
      IN /\ toml.kind = "str"
         /\ OptionValue(toml.val, "tool.setuptools_scm", "write_to")
              = "\"" \o path \o "\""
         /\ ResolvedKind(struct.kids[".gitignore"]) = "str"
         /\ Contains(path, reify_content(git, opts).val)
         /\ ~Contains(path, before.val) =>
               /\ git.kind = "str"
               /\ Len(git.val) >= Len(entry)
               /\ SubSeq(git.val, Len(git.val) - Len(entry) + 1, Len(git.val)) = entry

C8_Witness ==
    /\ Done
    /\ Has(host, "pyproject.toml")
    /\ Has(host, ".gitignore")
    /\ ~Contains(VersionFile(opts),
                 reify_content(resolve_leaf(host.kids[".gitignore"])[1], opts).val)

\* C9: the run is fail-fast.  The actions that have run are a prefix of the
\* list, in order; after a raise the run stands at the raising step and
\* nothing runs after it; a run is complete only when every plugin step has
\* run; and a step that has returned did not swallow an error: where
\* modify_gitignore or modify_pyproject_toml returned on a tree holding its
\* file, the file's content resolved to text, and where add_files returned,
\* setup.cfg was there with content.
C9_FailFast ==
    /\ ran = SubSeq(actions, 1, Len(ran))
    /\ err # "" => /\ pc = Len(ran)
                   /\ LastRan = actions[pc]
    /\ (err = "" /\ pc >= 1) => pc = Len(ran) + 1
    /\ Done => \A name \in PluginSteps : InRan(name)
    /\ (Returned("modify_gitignore") /\ Has(host, ".gitignore"))
         => ResolvedKind(host.kids[".gitignore"]) = "str"
    /\ (Returned("modify_pyproject_toml") /\ Has(host, "pyproject.toml"))
         => ResolvedKind(host.kids["pyproject.toml"]) = "str"
    /\ Returned("add_files")
         => /\ Has(host, "setup.cfg")
            /\ host.kids["setup.cfg"].content.kind # "none"

C9_Witness ==
    /\ err = "TypeError"
    /\ LastRan = "modify_gitignore"
    /\ pc < Len(actions)

\* C10: modify_setupcfg on a leaf whose content is None raises ValueError and
\* returns no leaf, whatever the leaf's shape and operation.
C10_NoneContentIsFatal ==
    (resolved.err # Pending.err /\ definition.content.kind = "none") =>
      /\ resolved.err = "ValueError"
      /\ resolved.val = <<>>

C10_Witness ==
    /\ resolved.err # Pending.err
    /\ definition.content.kind = "none"
    /\ definition.tup
    /\ definition.op = "no_overwrite"

\* the option block of a section of a document (the document holds both)
OptionOf(doc, section, key) ==
    LET body == doc[SectionIdx(doc, section)].body
    IN body[OptionIdx(body, key)]

HasOptionIn(doc, section, key) ==
    /\ has_section(doc, section)
    /\ has_option(doc[SectionIdx(doc, section)].body, key)

\* the values an option holds: the one on its own line, then one per
\* continuation line
ValueList(opt) == (IF opt.v = "" THEN <<>> ELSE <<opt.v>>) \o opt.more

InSeq(x, s) == \E i \in 1..Len(s) : s[i] = x

\* C12: after add_install_requires has returned, the value list of
\* install_requires in [options] is exactly REQUIREMENT_DEPENDENCIES, in the
\* document and in the text it renders to, and no prior value survives other
\* than as a member of that list.
C12_RequirementsReplaced ==
    (LastRan = "add_install_requires" /\ resolved.err = "") =>
      LET prior == ValueList(OptionOf(definition, "options", "install_requires"))
          now == ValueList(OptionOf(resolved.val, "options", "install_requires"))
          reread == read_string(StrC(RenderDoc(resolved.val)))
      IN /\ now = REQUIREMENT_DEPENDENCIES
         /\ Len(now) = 4
         /\ \A i \in 1..Len(prior) :
               InSeq(prior[i], now) => InSeq(prior[i], REQUIREMENT_DEPENDENCIES)
         /\ reread.err = ""
         /\ ValueList(OptionOf(reread.val, "options", "install_requires"))
              = REQUIREMENT_DEPENDENCIES

C12_Witness ==
    /\ LastRan = "add_install_requires"
    /\ resolved.err = ""
    /\ ValueList(OptionOf(definition, "options", "install_requires")) = <<"click">>


\* ---- version specifiers (PEP 440), read from the option's text -------------
\* position of the first occurrence of the character c in s, 0 when none
FindChar(c, s) ==
    IF \E i \in 1..Len(s) : SubSeq(s, i, i) = c
    THEN CHOOSE i \in 1..Len(s) :
            /\ SubSeq(s, i, i) = c
            /\ \A j \in 1..(i - 1) : SubSeq(s, j, j) # c
    ELSE 0

\* s.split(c)
RECURSIVE Split(_, _)
Split(s, c) ==
    LET i == FindChar(c, s)
    IN IF i = 0 THEN <<s>>
       ELSE <<SubSeq(s, 1, i - 1)>> \o Split(SubSeq(s, i + 1, Len(s)), c)

DigitVal(c) == CHOOSE d \in 0..9 : SubSeq("0123456789", d + 1, d + 1) = c

IsDigits(s) ==
    /\ Len(s) > 0
    /\ \A i \in 1..Len(s) : FindChar(SubSeq(s, i, i), "0123456789") > 0

\* int(s)
RECURSIVE ParseNat(_)
ParseNat(s) ==
    IF Len(s) = 0 THEN 0
    ELSE 10 * ParseNat(SubSeq(s, 1, Len(s) - 1)) + DigitVal(SubSeq(s, Len(s), Len(s)))

\* the release "3.13" as <<3, 13>>
IsRelease(s) == \A i \in 1..Len(Split(s, ".")) : IsDigits(Split(s, ".")[i])
Release(s) == [i \in 1..Len(Split(s, ".")) |-> ParseNat(Split(s, ".")[i])]

\* a range ">=lo,<hi": an inclusive minimum and an exclusive upper bound
IsRange(v) ==
    LET cl == Split(v, ",")
    IN /\ Len(cl) = 2
       /\ StartsWith(">=", cl[1])
       /\ StartsWith("<", cl[2])
       /\ ~StartsWith("<=", cl[2])
       /\ IsRelease(SubSeq(cl[1], 3, Len(cl[1])))
       /\ IsRelease(SubSeq(cl[2], 2, Len(cl[2])))

RangeMin(v) == LET c == Split(v, ",")[1] IN Release(SubSeq(c, 3, Len(c)))
RangeUpper(v) == LET c == Split(v, ",")[2] IN Release(SubSeq(c, 2, Len(c)))

\* s without its elements i and i + 1
DropTwo(s, i) == SubSeq(s, 1, i - 1) \o SubSeq(s, i + 2, Len(s))

\* py_requires has returned: in [options] the comment is immediately followed
\* by python_requires, which is immediately followed by install_requires;
\* python_requires occurs once; every other entry of the section, and every
\* other section, is as it was and where it was.
PyRequiresPlaced ==
    LET s == SectionIdx(resolved.val, "options")
        body == resolved.val[s].body
        i == OptionIdx(body, "install_requires")
    IN /\ i >= 3
       /\ body[i - 2].t = "com"
       /\ body[i - 2].k = "Minimum Python Version 3.9 required"
       /\ body[i - 1].t = "opt"
       /\ body[i - 1].k = "python_requires"
       /\ Cardinality({j \in 1..Len(body) :
                          body[j].t = "opt" /\ body[j].k = "python_requires"}) = 1
       /\ SectionIdx(definition, "options") = s
       /\ DropTwo(body, i - 2) = definition[s].body
       /\ [resolved.val EXCEPT ![s].body = definition[s].body] = definition

PythonRequiresValue == OptionOf(resolved.val, "options", "python_requires").v

\* C13 (as stated): after py_requires, comment, python_requires and
\* install_requires are adjacent in that order, the other entries keep their
\* order, and the python_requires value is a range whose exclusive upper
\* bound is the major release after the minimum's.
C13_NextMajorRange ==
    (LastRan = "py_requires" /\ resolved.err = "") =>
      /\ PyRequiresPlaced
      /\ IsRange(PythonRequiresValue)
      /\ LET lo == RangeMin(PythonRequiresValue)
             hi == RangeUpper(PythonRequiresValue)
         IN hi = <<lo[1] + 1>> \/ hi = <<lo[1] + 1, 0>>

\* C13 (amended): after py_requires, comment, python_requires and
\* install_requires are adjacent in that order, the other entries keep their
\* order, and the python_requires value is the range >=3.9,<3.13: minimum 3.9
\* inclusive, upper bound exclusive at the minor release 3.13 of the same
\* major version.
C13_PyRequiresPlacement ==
    (LastRan = "py_requires" /\ resolved.err = "") =>
      /\ PyRequiresPlaced
      /\ IsRange(PythonRequiresValue)
      /\ RangeMin(PythonRequiresValue) = <<3, 9>>
      /\ RangeUpper(PythonRequiresValue) = <<3, 13>>

C13_Witness ==
    /\ LastRan = "py_requires"
    /\ resolved.err = ""
    /\ LET old == definition[SectionIdx(definition, "options")].body
           i == OptionIdx(old, "install_requires")
       IN 1 < i /\ i < Len(old)


\* C14: after add_entry_point on a document with an [options] section, whether
\* or not [options.entry_points] or console_scripts was there before, the call
\* has returned, [options.entry_points] exists (right after [options] when it
\* was created), console_scripts is its first entry and occurs once, and its
\* value is the single mapping "<package> = <package>.cli:cli".
C14_EntryPointEnsured ==
    (LastRan = "add_entry_point" /\ has_section(definition, "options")) =>
      /\ resolved.err = ""
      /\ has_section(resolved.val, "options.entry_points")
      /\ ~has_section(definition, "options.entry_points") =>
            SectionIdx(resolved.val, "options.entry_points")
              = SectionIdx(resolved.val, "options") + 1
      /\ LET body == resolved.val[SectionIdx(resolved.val, "options.entry_points")].body
         IN /\ body # <<>>
            /\ body[1].t = "opt"
            /\ body[1].k = "console_scripts"
            /\ Cardinality({j \in 1..Len(body) :
                              body[j].t = "opt" /\ body[j].k = "console_scripts"}) = 1
            /\ ValueList(body[1])
                 = <<opts.package \o " = " \o opts.package \o ".cli:cli">>


\* how often a function has been applied
Count(name) == Cardinality({i \in 1..Len(ran) : ran[i] = name})

\* the write-policy of a leaf: the operation of the tuple (None when the
\* tuple names none), and the host's default (create) for a bare content
WritePolicy(leaf) == IF leaf.tup THEN leaf.op ELSE "create"

PatchedFiles == {"setup.cfg", "pyproject.toml", ".gitignore"}

\* the files patched in the tree itself
LineFiles == {"pyproject.toml", ".gitignore"}

PatchOf(file) ==
    CASE file = "setup.cfg" -> "add_files"
      [] file = "pyproject.toml" -> "modify_pyproject_toml"
      [] file = ".gitignore" -> "modify_gitignore"

\* C11: the patches change content only.  The leaf modify_setupcfg returns
\* has the write-policy of the leaf it was handed.  After any patches that
\* returned, each of pyproject.toml and .gitignore that the tree held is
\* still a leaf of the tree, with the write-policy it had before the first
\* patch; setup.cfg is still a leaf of the tree; and no patch adds one of
\* the three files to a tree that did not hold it.
C11_WritePolicyKept ==
    /\ resolved.err = "" =>
          /\ resolved.val.kind = "leaf"
          /\ WritePolicy(resolved.val) = WritePolicy(definition)
    /\ (ran # <<>> /\ err = "") =>
          \A f \in PatchedFiles :
             /\ Has(struct, f) <=> Has(host, f)
             /\ Has(host, f) => struct.kids[f].kind = "leaf"
             /\ (Has(host, f) /\ f \in LineFiles) =>
                   WritePolicy(struct.kids[f]) = WritePolicy(host.kids[f])

\* each file has been rewritten, from a leaf without an operation of its own
C11_Witness ==
    /\ err = ""
    /\ resolved.err = ""
    /\ ~definition.tup
    /\ \A f \in PatchedFiles :
          /\ Count(PatchOf(f)) >= 1
          /\ Has(host, f)
          /\ ~host.kids[f].tup
          /\ host.kids[f].content.kind # "str"
          /\ struct.kids[f].content.kind = "str"


\* how many lines of a config text are of type t with key k
LineCount(text, t, k) ==
    Cardinality({i \in 1..Len(text) : text[i].t = t /\ text[i].k = k})

\* C15: modify_setupcfg applied to what modify_setupcfg returned (same
\* options; the setup.cfg entry of a tree add_files is applied to twice)
\* returns, and the text then holds python_requires, the comment,
\* install_requires and console_scripts once each and equals the text of
\* the first application.
C15_SetupCfgIdempotent ==
    Count("add_files") >= 2 =>
      /\ err = ""
      /\ LET once == modify_setupcfg(host.kids["setup.cfg"], opts)
             text == struct.kids["setup.cfg"].content.val
         IN /\ LineCount(text, "opt", "python_requires") = 1
            /\ LineCount(text, "com", "Minimum Python Version 3.9 required") = 1
            /\ LineCount(text, "opt", "install_requires") = 1
            /\ LineCount(text, "opt", "console_scripts") = 1
            /\ text = once.val.content.val


\* ---- .gitignore: the content before the first patch and the content now ----
GitContent(tree) == reify_content(resolve_leaf(tree.kids[".gitignore"])[1], opts)

\* the tree held a .gitignore with text content when the first patch ran
GitWasText == Has(host, ".gitignore") /\ GitContent(host).kind = "str"

GitIn == GitContent(host).val
GitOut == GitContent(struct).val

\* the entry src/<package>/_version.py
Entry == "src/" \o opts.package \o "/_version.py"

\* s.count(sub)
Occurrences(sub, s) ==
    Cardinality({i \in 1..(Len(s) - Len(sub) + 1) : SubSeq(s, i, i + Len(sub) - 1) = sub})

EndsWith(p, s) == Len(s) >= Len(p) /\ SubSeq(s, Len(s) - Len(p) + 1, Len(s)) = p

\* s.splitlines()
Lines(s) ==
    LET parts == Split(s, "\n")
    IN IF parts[Len(parts)] = "" THEN SubSeq(parts, 1, Len(parts) - 1) ELSE parts

\* C16: modify_gitignore is idempotent.  When it has been applied two or more
\* times in succession to a tree with a .gitignore text, the content is the
\* content one application to the first tree gives.
C16_GitignoreIdempotent ==
    (GitWasText /\ Count("modify_gitignore") >= 2 /\ err = "") =>
      LET once == modify_gitignore(host, opts)
      IN /\ once.err = ""
         /\ GitContent(struct).kind = "str"
         /\ GitOut = GitContent(once.val).val

\* two applications, the first of which appended the entry
C16_Witness ==
    /\ GitWasText
    /\ Count("modify_gitignore") >= 2
    /\ err = ""
    /\ ~Contains(Entry, GitIn)
    /\ Contains(Entry, GitOut)
    /\ Len(GitIn) > 0


\* C17: whatever text the .gitignore held (the entry absent, present, present
\* more than once, or present only inside a longer line), after one or more
\* applications of modify_gitignore the text has exactly one occurrence of
\* src/<package>/_version.py.
C17_ExactlyOneEntry ==
    (GitWasText /\ Count("modify_gitignore") >= 1 /\ err = "") =>
      /\ GitContent(struct).kind = "str"
      /\ Occurrences(Entry, GitOut) = 1

\* C18: when modify_gitignore has appended the entry, the entry is a line of
\* the text, the line before it is the comment "# Generated by
\* setuptools_scm", and every line of the original text is still a line of
\* the text.
C18_CommentBeforeEntry ==
    (GitWasText /\ Count("modify_gitignore") >= 1 /\ err = ""
       /\ ~Contains(Entry, GitIn)) =>
      LET out == Lines(GitOut)
          old == Lines(GitIn)
      IN /\ \E j \in 2..Len(out) :
               /\ out[j] = Entry
               /\ out[j - 1] = "# Generated by setuptools_scm"
         /\ \A i \in 1..Len(old) : InSeq(old[i], out)

\* C19: modify_gitignore on a tree whose .gitignore content is None does not
\* raise, and leaves a text that holds the comment and the entry.
C19_NoneIsEmptyDocument ==
    (Has(host, ".gitignore") /\ host.kids[".gitignore"].content.kind = "none"
       /\ Count("modify_gitignore") >= 1) =>
      /\ err = ""
      /\ GitContent(struct).kind = "str"
      /\ Contains("# Generated by setuptools_scm", GitOut)
      /\ Contains(Entry, GitOut)

\* the one line terminator put after a text that is not empty and does not
\* end with one
Terminator(text) == IF Len(text) > 0 /\ ~EndsWith("\n", text) THEN "\n" ELSE ""

\* C20: for a text without the entry, the text after modify_gitignore is the
\* input text, character for character, then a line terminator when the
\* input is not empty and does not end with one, then the appended block
\* (the entry line, with or without the comment line before it).
C20_InputIsPrefix ==
    (GitWasText /\ Count("modify_gitignore") >= 1 /\ err = ""
       /\ ~Contains(Entry, GitIn)) =>
      \E block \in {Entry \o "\n", "# Generated by setuptools_scm\n" \o Entry \o "\n"} :
         GitOut = GitIn \o Terminator(GitIn) \o block


\* C21: once modify_pyproject_toml or modify_gitignore has run on a tree whose
\* file resolves to something that is not text (None, a number, a producer
\* yielding one of these), the run stands at that step with a TypeError, and
\* the entry of the file is the entry the tree had: same shape, same
\* operation, same unresolved content.
C21_NonTextIsFatal ==
    \A f \in LineFiles :
       (Count(PatchOf(f)) >= 1 /\ Has(host, f)
          /\ ResolvedKind(host.kids[f]) # "str") =>
         /\ err = "TypeError"
         /\ LastRan = PatchOf(f)
         /\ Has(struct, f)
         /\ ResolvedKind(struct.kids[f]) # "str"
         /\ struct.kids[f] = host.kids[f]

C21_Witness ==
    /\ LastRan = "modify_pyproject_toml"
    /\ err = "TypeError"
    /\ Has(host, "pyproject.toml")
    /\ host.kids["pyproject.toml"].content.kind = "fn"
    /\ ResolvedKind(host.kids["pyproject.toml"]) = "int"


\* C22: a step of modify_pyproject_toml on a tree without pyproject.toml, or
\* of modify_gitignore on a tree without .gitignore, returns: it raises
\* nothing and leaves the tree (which still lacks the entry) and the options
\* as they were.
C22_AbsentIsSkipped ==
    [][\A f \in LineFiles :
          (~Has(struct, f) /\ ran' = Append(ran, PatchOf(f))) =>
             /\ err' = ""
             /\ ~Has(struct', f)
             /\ struct' = struct
             /\ opts' = opts]_vars

\* modify_gitignore has returned on a patched tree that has no .gitignore
C22_Witness ==
    /\ LastRan = "modify_gitignore"
    /\ err = ""
    /\ ~Has(host, ".gitignore")
    /\ Has(host, "pyproject.toml")
    /\ Count("modify_pyproject_toml") >= 1


\* ---- placeholder substitution ----------------------------------------------
ProjectSpellings ==
    {"{{ project_name }}", "{{project_name}}", "{{ ProjectName }}", "{{ProjectName}}"}

PackageSpellings ==
    {"{{ package_name }}", "{{package_name}}", "{{ PackageName }}", "{{PackageName}}",
     "{{package}}"}

HasKey(k) == k \in DOMAIN opts

\* the template's pieces one by one, with the project spellings replaced by
\* proj and the package spellings by pkg
RECURSIVE Filled(_, _, _)
Filled(pieces, proj, pkg) ==
    IF pieces = <<>> THEN ""
    ELSE LET piece == TemplatePieces[Head(pieces)]
         IN (IF piece \in ProjectSpellings THEN proj
             ELSE IF piece \in PackageSpellings THEN pkg
             ELSE piece)
            \o Filled(Tail(pieces), proj, pkg)

UsesSpelling(spellings) ==
    \E i \in 1..Len(definition) : TemplatePieces[definition[i]] \in spellings

\* the project value by the stated precedence
ClaimedProject ==
    CASE HasKey("project") -> opts["project"]
      [] ~HasKey("project") /\ HasKey("project_name") -> opts["project_name"]
      [] ~HasKey("project") /\ ~HasKey("project_name") /\ HasKey("name") -> opts["name"]
      [] OTHER -> "project"

\* the package value by the stated precedence
ClaimedPackage ==
    CASE HasKey("package") -> opts["package"]
      [] ~HasKey("package") /\ HasKey("package_name") -> opts["package_name"]
      [] OTHER -> ReplaceChar(ClaimedProject, "-", "_")

\* C23: for every options mapping (any of the keys missing) and every
\* template without package placeholders, the substitution returns the
\* template with each project spelling replaced by the project value -
\* `project`, else `project_name`, else `name`, else "project" - hyphens kept,
\* and everything else as it was.
C23_ProjectPrecedence ==
    (resolved.err # Pending.err /\ ~UsesSpelling(PackageSpellings)) =>
      /\ resolved.err = ""
      /\ resolved.val = Filled(definition, ClaimedProject, "")
      /\ \A sp \in ProjectSpellings : ~Contains(sp, resolved.val)
      /\ UsesSpelling(ProjectSpellings) => Contains(ClaimedProject, resolved.val)

\* the value comes from `name`, the last key of the precedence, with hyphens
C23_Witness ==
    /\ resolved.err = ""
    /\ ~HasKey("project")
    /\ ~HasKey("project_name")
    /\ HasKey("name")
    /\ HasKey("package")
    /\ UsesSpelling(ProjectSpellings)
    /\ ~UsesSpelling(PackageSpellings)
    /\ Contains("named-project", resolved.val)

\* C24: for every options mapping and every template, each package spelling
\* is replaced by the package value - `package`, else `package_name`, else
\* the project value with every hyphen turned into an underscore, which is
\* "project" when no project key is there either.  The derived value has no
\* hyphen, is the project value itself when that has none, and is
\* "my_cool_project" for "my-cool-project".
C24_PackagePrecedence ==
    resolved.err # Pending.err =>
      /\ resolved.err = ""
      /\ resolved.val = Filled(definition, ClaimedProject, ClaimedPackage)
      /\ \A sp \in PackageSpellings : ~Contains(sp, resolved.val)
      /\ (UsesSpelling(PackageSpellings) /\ ~HasKey("package") /\ ~HasKey("package_name")) =>
            LET derived == substitute_brace_vars("{{package}}", opts)
            IN /\ Contains(derived, resolved.val)
               /\ ~Contains("-", derived)
               /\ ~Contains("-", ClaimedProject) => derived = ClaimedProject
               /\ ClaimedProject = "my-cool-project" => derived = "my_cool_project"
               /\ ClaimedProject = "project" => derived = "project"

\* the package value is derived from a project name with hyphens
C24_Witness ==
    /\ resolved.err = ""
    /\ ~HasKey("package")
    /\ ~HasKey("package_name")
    /\ HasKey("project")
    /\ opts["project"] = "my-cool-project"
    /\ UsesSpelling(PackageSpellings)
    /\ UsesSpelling(ProjectSpellings)
    /\ Contains("my_cool_project", resolved.val)
    /\ Contains("my-cool-project", resolved.val)


\* the leaf at a path, with a given operation
IsLeafWith(tree, path, op) ==
    /\ HasPath(tree, path)
    /\ NodeAt(tree, path).kind = "leaf"
    /\ NodeAt(tree, path).tup
    /\ NodeAt(tree, path).op = op

\* C25: after amend_tests on any tree, tests/test_skeleton.py and
\* tests/conftest.py are out of the tree, tests/README.md is a never-overwrite
\* leaf, tests/unit/test_import.py and tests/integration/test_layout.py are
\* skip-on-update leaves, and every entry outside tests/ is as it was.
C25_AmendTests ==
    LastRan = "amend_tests" =>
      /\ err = ""
      /\ ~HasPath(struct, <<"tests", "test_skeleton.py">>)
      /\ ~HasPath(struct, <<"tests", "conftest.py">>)
      /\ IsLeafWith(struct, <<"tests", "README.md">>, "no_overwrite")
      /\ IsLeafWith(struct, <<"tests", "unit", "test_import.py">>, "skip_on_update")
      /\ IsLeafWith(struct, <<"tests", "integration", "test_layout.py">>, "skip_on_update")
      /\ NodeAt(struct, <<"tests", "unit", "test_import.py">>).content.kind = "fn"
      /\ DOMAIN struct.kids = DOMAIN host.kids \cup {"tests"}
      /\ \A k \in DOMAIN host.kids \ {"tests"} : struct.kids[k] = host.kids[k]

\* the input held both rejected files, a README and a test_import.py of its
\* own, and files outside tests/
C25_Witness ==
    /\ LastRan = "amend_tests"
    /\ HasPath(host, <<"tests", "conftest.py">>)
    /\ HasPath(host, <<"tests", "test_skeleton.py">>)
    /\ HasPath(host, <<"tests", "README.md">>)
    /\ HasPath(host, <<"tests", "unit", "test_import.py">>)
    /\ Has(host, "conftest.py")
    /\ Has(struct, "conftest.py")


\* the (key, value) pairs modify_pyproject_toml sets, by section
TomlSettings ==
    ("tool.setuptools_scm" :> ScmSettings(opts))
    @@ ("tool.black" :> BlackSettings)
    @@ ("tool.pytest.ini_options" :> PytestSettings)

\* C26: modify_pyproject_toml applied two or more times to a tree holding a
\* pyproject.toml text leaves the text one application gives: each of the
\* three sections once, each key it sets once and with the fixed value, and
\* not one blank line more.
C26_PyprojectIdempotent ==
    (Count("modify_pyproject_toml") >= 2 /\ Has(host, "pyproject.toml") /\ err = "") =>
      LET text == struct.kids["pyproject.toml"].content.val
          once == modify_pyproject_toml(host, opts).val.kids["pyproject.toml"].content.val
      IN /\ \A sec \in DOMAIN TomlSettings :
               /\ LineCount(text, "sec", sec) = 1
               /\ \A i \in 1..Len(TomlSettings[sec]) :
                     /\ LineCount(text, "opt", TomlSettings[sec][i][1]) = 1
                     /\ OptionValue(text, sec, TomlSettings[sec][i][1])
                          = TomlSettings[sec][i][2]
         /\ LineCount(text, "blank", "") = LineCount(once, "blank", "")
         /\ text = once


====
